---- MODULE Spec2Model ----
(***************************************************************************)
(* Quadkeys.go: the Bing-maps tile system (latitude/longitude -> pixel ->  *)
(* tile -> quadkey and back) as a library of pure functions.               *)
(*                                                                         *)
(* The state is one caller of the library: the function it called last,    *)
(* the arguments, the value returned, the values some of the function's    *)
(* local variables had when it returned (locals), and, when the argument   *)
(* was the value the call before returned, the call before.                *)
(*                                                                         *)
(* Machine integers.  Go's int and uint are 32 or 64 bits wide, the build  *)
(* decides (intSize).  A word is modelled by the set of the positions of   *)
(* its one-bits, a subset of 0 .. intSize-1: position intSize-1 is the     *)
(* sign bit of an int (two's complement), -1 is the full set.  Bit         *)
(* operations are set operations, so 2^31 and 2^63 are ordinary values.    *)
(***************************************************************************)
EXTENDS Integers, Sequences, FiniteSets

VARIABLES intSize, fn, args, ret, locals, prevFn, prevArgs, prevRet

vars == <<intSize, fn, args, ret, locals, prevFn, prevArgs, prevRet>>

\* const MaxLevel = 23
MaxLevel == 23

\* Quadkeys of every length up to MaxKeyLen, and tiles of every level up to
\* MaxLev, are enumerated exhaustively; longer ones by samples.
MaxKeyLen == 4
MaxLev == 3

Max(S) == CHOOSE m \in S : \A n \in S : n <= m
Min(S) == CHOOSE m \in S : \A n \in S : m <= n

(***************************************************************************)
(* Words                                                                   *)
(***************************************************************************)

\* The widths of int and uint a Go build can have.
IntSizes == {32, 64}

\* An untyped non-negative constant below 2^31 as a word.
Bits(n) == {i \in 0..30 : (n \div (2^i)) % 2 = 1}

\* int(-1)
MinusOne == 0..(intSize - 1)

\* Every value of an int or uint.
Words == SUBSET (0..(intSize - 1))

\* x << k on a word: bits shifted past the width are lost; a count of
\* intSize or more leaves 0.
Shl(x, k) == {i + k : i \in x} \cap (0..(intSize - 1))

\* x & y, x | y
BitAnd(x, y) == x \cap y
BitOr(x, y) == x \cup y

\* x < 0 for an int
IsNeg(x) == (intSize - 1) \in x

\* ^x
BitNot(x) == (0..(intSize - 1)) \ x

\* x + y, wrapping at the width: carry[a, c] adds the carries c to the
\* carry-free sum a until none is left.
Add(x, y) ==
    LET carry[a \in Words, c \in Words] ==
            IF c = {} THEN a
            ELSE carry[(a \ c) \cup (c \ a), Shl(BitAnd(a, c), 1)]
    IN  carry[x, y]

\* -x and x - y, wrapping at the width (two's complement)
Neg(x) == Add(BitNot(x), Bits(1))
Sub(x, y) == Add(x, Neg(y))

\* x * y, wrapping at the width: the sum of x << i over the one-bits i of y.
Mul(x, y) ==
    LET sum[rest \in SUBSET y, acc \in Words] ==
            IF rest = {} THEN acc
            ELSE LET i == Min(rest)
                 IN  sum[rest \ {i}, Add(acc, Shl(x, i))]
    IN  sum[y, {}]

\* x >> k of an unsigned word
Shr(x, k) == {i - k : i \in {j \in x : j >= k}}

\* x / d on ints for a divisor d that is a positive power of two (the only
\* divisor the program has): Go's quotient is truncated toward zero, so a
\* negative x is divided by magnitude.
Quo(x, d) ==
    LET k == Max(d)
    IN  IF IsNeg(x) THEN Neg(Shr(Neg(x), k)) ELSE Shr(x, k)

(***************************************************************************)
(* Quadkeys: a string is the sequence of its bytes.                        *)
(***************************************************************************)

DigitChars == <<"0", "1", "2", "3", "4", "5", "6", "7", "8", "9">>

RECURSIVE Itoa(_)
\* strconv.Itoa of a non-negative int
Itoa(n) ==
    IF n < 10 THEN <<DigitChars[n + 1]>>
    ELSE Itoa(n \div 10) \o <<DigitChars[(n % 10) + 1]>>

\* The digits a quadkey is written with, as strings of bytes.
QuadKeyStrings == Seq({"0", "1", "2", "3"})

\* TileXYToQuadKey with the weights of the two coordinates exchanged:
\* tileX counting 2 and tileY counting 1.
TileXYToQuadKey_SwappedDigits(tileX, tileY, levelOfDetail) ==
    LET loop[i \in 0..levelOfDetail, buffer \in QuadKeyStrings] ==
            IF i > 0
            THEN LET mask == Shl(Bits(1), i - 1)
                     d0 == 0
                     d1 == IF BitAnd(tileY, mask) # {} THEN d0 + 1 ELSE d0
                     d2 == IF BitAnd(tileX, mask) # {} THEN d1 + 1 + 1 ELSE d1
                 IN  loop[i - 1, buffer \o Itoa(d2)]
            ELSE buffer
    IN  loop[levelOfDetail, <<>>]

\* TileXYToQuadKey writing the finest level first: the mask of iteration i
\* taken from the low end.
TileXYToQuadKey_FinestFirst(tileX, tileY, levelOfDetail) ==
    LET loop[i \in 0..levelOfDetail, buffer \in QuadKeyStrings] ==
            IF i > 0
            THEN LET mask == Shl(Bits(1), levelOfDetail - i)
                     d0 == 0
                     d1 == IF BitAnd(tileX, mask) # {} THEN d0 + 1 ELSE d0
                     d2 == IF BitAnd(tileY, mask) # {} THEN d1 + 1 + 1 ELSE d1
                 IN  loop[i - 1, buffer \o Itoa(d2)]
            ELSE buffer
    IN  loop[levelOfDetail, <<>>]

\* The loop runs i from levelOfDetail down to 1; loop[i, buffer] is what the
\* function returns when the loop is about to test i with buffer written.
TileXYToQuadKey(tileX, tileY, levelOfDetail) ==
    LET loop[i \in 0..levelOfDetail, buffer \in QuadKeyStrings] ==
            IF i > 0
            THEN LET mask == Shl(Bits(1), i - 1)
                     d0 == 0
                     d1 == IF BitAnd(tileX, mask) # {} THEN d0 + 1 ELSE d0
                     d2 == IF BitAnd(tileY, mask) # {} THEN d1 + 1 + 1 ELSE d1
                 IN  loop[i - 1, buffer \o Itoa(d2)]
            ELSE buffer
    IN  loop[levelOfDetail, <<>>]

\* QuadKeyToTileXY with the mask one bit too high: 1 << i.
QuadKeyToTileXY_MaskOffByOne(quadKey) ==
    LET levelOfDetail == Len(quadKey)
        loop[i \in 0..levelOfDetail, tileX \in Words, tileY \in Words] ==
            IF i > 0
            THEN LET mask == Shl(Bits(1), i)
                     c == quadKey[(levelOfDetail - i) + 1]
                 IN  CASE c = "0" -> loop[i - 1, tileX, tileY]
                       [] c = "1" -> loop[i - 1, BitOr(tileX, mask), tileY]
                       [] c = "2" -> loop[i - 1, tileX, BitOr(tileY, mask)]
                       [] c = "3" -> loop[i - 1, BitOr(tileX, mask),
                                                 BitOr(tileY, mask)]
                       [] OTHER   -> loop[i - 1, MinusOne, MinusOne]
            ELSE <<tileX, tileY, levelOfDetail>>
    IN  loop[levelOfDetail, Bits(0), Bits(0)]

\* QuadKeyToTileXY whose case "3" sets the bit of tileX alone.
QuadKeyToTileXY_ThreeSetsXOnly(quadKey) ==
    LET levelOfDetail == Len(quadKey)
        loop[i \in 0..levelOfDetail, tileX \in Words, tileY \in Words] ==
            IF i > 0
            THEN LET mask == Shl(Bits(1), i - 1)
                     c == quadKey[(levelOfDetail - i) + 1]
                 IN  CASE c = "0" -> loop[i - 1, tileX, tileY]
                       [] c = "1" -> loop[i - 1, BitOr(tileX, mask), tileY]
                       [] c = "2" -> loop[i - 1, tileX, BitOr(tileY, mask)]
                       [] c = "3" -> loop[i - 1, BitOr(tileX, mask), tileY]
                       [] OTHER   -> loop[i - 1, MinusOne, MinusOne]
            ELSE <<tileX, tileY, levelOfDetail>>
    IN  loop[levelOfDetail, Bits(0), Bits(0)]

\* QuadKeyToTileXY whose default case assigns, not -1, the mask: later digits
\* change the coordinates again.
QuadKeyToTileXY_SentinelIsMask(quadKey) ==
    LET levelOfDetail == Len(quadKey)
        loop[i \in 0..levelOfDetail, tileX \in Words, tileY \in Words] ==
            IF i > 0
            THEN LET mask == Shl(Bits(1), i - 1)
                     c == quadKey[(levelOfDetail - i) + 1]
                 IN  CASE c = "0" -> loop[i - 1, tileX, tileY]
                       [] c = "1" -> loop[i - 1, BitOr(tileX, mask), tileY]
                       [] c = "2" -> loop[i - 1, tileX, BitOr(tileY, mask)]
                       [] c = "3" -> loop[i - 1, BitOr(tileX, mask),
                                                 BitOr(tileY, mask)]
                       [] OTHER   -> loop[i - 1, mask, mask]
            ELSE <<tileX, tileY, levelOfDetail>>
    IN  loop[levelOfDetail, Bits(0), Bits(0)]

\* Returns (tileX, tileY, levelOfDetail); the function has no error result.
\* loop[i, tileX, tileY] is what it returns when the loop is about to test i
\* with these coordinates accumulated.
QuadKeyToTileXY(quadKey) ==
    LET levelOfDetail == Len(quadKey)
        loop[i \in 0..levelOfDetail, tileX \in Words, tileY \in Words] ==
            IF i > 0
            THEN LET mask == Shl(Bits(1), i - 1)
                     c == quadKey[(levelOfDetail - i) + 1]
                 IN  CASE c = "0" -> loop[i - 1, tileX, tileY]
                       [] c = "1" -> loop[i - 1, BitOr(tileX, mask), tileY]
                       [] c = "2" -> loop[i - 1, tileX, BitOr(tileY, mask)]
                       [] c = "3" -> loop[i - 1, BitOr(tileX, mask),
                                                 BitOr(tileY, mask)]
                       [] OTHER   -> loop[i - 1, MinusOne, MinusOne]
            ELSE <<tileX, tileY, levelOfDetail>>
    IN  loop[levelOfDetail, Bits(0), Bits(0)]

(***************************************************************************)
(* float64.  A finite value is a sign and a magnitude; the magnitude is    *)
(* the set of the positions of its one-bits, position i weighing 2^i       *)
(* (negative positions are the fraction), with at most 53 positions from   *)
(* the highest to the lowest.  Each operation computes the exact result    *)
(* and rounds it to 53 bits, ties to even, as IEEE 754 does.  Magnitudes   *)
(* in the program stay between 2^-60 and 2^64, far inside the exponent     *)
(* range, so overflow and subnormals are not modelled.                     *)
(***************************************************************************)

Mags == SUBSET Int

NaN == [k |-> "nan", neg |-> FALSE, m |-> {}]
Inf(neg) == [k |-> "inf", neg |-> neg, m |-> {}]
Fin(neg, m) == [k |-> "fin", neg |-> neg, m |-> m]

IsNaN(f) == f.k = "nan"
IsInf(f) == f.k = "inf"
IsZero(f) == f.k = "fin" /\ f.m = {}

\* a < b for magnitudes: the highest position where they differ is b's.
MagLess(a, b) == a # b /\ Max((a \ b) \cup (b \ a)) \in b

\* a + b, exact
MagAdd(a, b) ==
    LET carry[s \in Mags, c \in Mags] ==
            IF c = {} THEN s
            ELSE carry[(s \ c) \cup (c \ s), {i + 1 : i \in s \cap c}]
    IN  carry[a, b]

\* a - b for a >= b, exact
MagSub(a, b) ==
    LET borrow[s \in Mags, c \in Mags] ==
            IF c = {} THEN s
            ELSE borrow[(s \ c) \cup (c \ s), {i + 1 : i \in c \ s}]
    IN  borrow[a, b]

\* a * b, exact: the sum of a * 2^i over the one-bits i of b.
MagMul(a, b) ==
    LET sum[rest \in SUBSET b, acc \in Mags] ==
            IF rest = {} THEN acc
            ELSE LET i == Min(rest)
                 IN  sum[rest \ {i}, MagAdd(acc, {j + i : j \in a})]
    IN  sum[b, {}]

\* Round to nearest, ties to even, at 53 significant bits.
Round53(m) ==
    IF m = {} THEN {}
    ELSE LET cut == Max(m) - 52
             kept == {i \in m : i >= cut}
             half == (cut - 1) \in m
             sticky == \E i \in m : i < cut - 1
         IN  IF half /\ (sticky \/ cut \in m)
             THEN MagAdd(kept, {cut})
             ELSE kept

\* a / b (neither zero) rounded to 53 bits: long division down to 55
\* quotient bits, a remainder left over standing as one more bit below.
MagDiv(a, b) ==
    LET top == Max(a) - Max(b)
        low == top - 54
        step[p \in Int, rem \in Mags, q \in Mags] ==
            IF p < low
            THEN IF rem = {} THEN q ELSE q \cup {low - 1}
            ELSE LET d == {i + p : i \in b}
                 IN  IF MagLess(rem, d)
                     THEN step[p - 1, rem, q]
                     ELSE step[p - 1, MagSub(rem, d), q \cup {p}]
    IN  Round53(step[top, a, {}])

\* x < y and x == y as Go compares float64 (false when either is NaN;
\* the two zeros are equal).
FLess(x, y) ==
    /\ ~IsNaN(x)
    /\ ~IsNaN(y)
    /\ ~(IsZero(x) /\ IsZero(y))
    /\ x # y
    /\ CASE IsInf(x) -> x.neg
         [] IsInf(y) -> ~y.neg
         [] x.neg /\ ~y.neg -> TRUE
         [] ~x.neg /\ y.neg -> FALSE
         [] x.neg -> MagLess(y.m, x.m)
         [] OTHER -> MagLess(x.m, y.m)

FEq(x, y) ==
    /\ ~IsNaN(x)
    /\ ~IsNaN(y)
    /\ (x = y \/ (IsZero(x) /\ IsZero(y)))

\* x + y
FAdd(x, y) ==
    CASE IsNaN(x) \/ IsNaN(y) -> NaN
      [] IsInf(x) /\ IsInf(y) -> IF x.neg = y.neg THEN x ELSE NaN
      [] IsInf(x) -> x
      [] IsInf(y) -> y
      [] x.neg = y.neg -> Fin(x.neg, Round53(MagAdd(x.m, y.m)))
      [] x.m = y.m -> Fin(FALSE, {})
      [] MagLess(x.m, y.m) -> Fin(y.neg, Round53(MagSub(y.m, x.m)))
      [] OTHER -> Fin(x.neg, Round53(MagSub(x.m, y.m)))

\* x * y
FMul(x, y) ==
    CASE IsNaN(x) \/ IsNaN(y) -> NaN
      [] (IsInf(x) /\ IsZero(y)) \/ (IsZero(x) /\ IsInf(y)) -> NaN
      [] IsInf(x) \/ IsInf(y) -> Inf(x.neg # y.neg)
      [] OTHER -> Fin(x.neg # y.neg, Round53(MagMul(x.m, y.m)))

\* x / y
FDiv(x, y) ==
    CASE IsNaN(x) \/ IsNaN(y) -> NaN
      [] IsInf(x) /\ IsInf(y) -> NaN
      [] IsZero(x) /\ IsZero(y) -> NaN
      [] IsInf(x) \/ IsZero(y) -> Inf(x.neg # y.neg)
      [] IsInf(y) \/ IsZero(x) -> Fin(x.neg # y.neg, {})
      [] OTHER -> Fin(x.neg # y.neg, MagDiv(x.m, y.m))

\* An untyped non-negative integer constant below 2^31, and its negation,
\* as a float64.
FConst(n) == Fin(FALSE, Bits(n))
FNegConst(n) == Fin(TRUE, Bits(n))

\* 0.5
FHalf == Fin(FALSE, {-1})

\* math.Max and math.Min, with the special cases of their documentation:
\* an infinity of the right sign wins, then NaN, then the sign of a zero.
FMax(x, y) ==
    CASE (IsInf(x) /\ ~x.neg) \/ (IsInf(y) /\ ~y.neg) -> Inf(FALSE)
      [] IsNaN(x) \/ IsNaN(y) -> NaN
      [] IsZero(x) /\ IsZero(y) -> IF x.neg THEN y ELSE x
      [] FLess(y, x) -> x
      [] OTHER -> y

FMin(x, y) ==
    CASE (IsInf(x) /\ x.neg) \/ (IsInf(y) /\ y.neg) -> Inf(TRUE)
      [] IsNaN(x) \/ IsNaN(y) -> NaN
      [] IsZero(x) /\ IsZero(y) -> IF x.neg THEN x ELSE y
      [] FLess(x, y) -> x
      [] OTHER -> y

\* clip with the two bounds exchanged
clip_BoundsSwapped(n, minValue, maxValue) == FMin(FMax(n, maxValue), minValue)

clip(n, minValue, maxValue) == FMin(FMax(n, minValue), maxValue)

\* float64(u) of a uint
UintToFloat(u) == Fin(FALSE, Round53(u))

\* The ints int(f) can be.  A value is truncated toward zero; when the
\* truncated value is not in the range of int, or f is NaN or infinite, the
\* result is implementation-dependent: amd64 gives the least int, arm64
\* saturates and gives 0 for NaN.
FloatToInt(f) ==
    LET t == IF f.k = "fin" THEN {i \in f.m : i >= 0} ELSE {}
        least == {intSize - 1}
        greatest == 0..(intSize - 2)
    IN  CASE f.k = "fin" /\ ~f.neg /\ t \subseteq greatest -> {t}
          [] f.k = "fin" /\ f.neg /\ (t \subseteq greatest \/ t = least) ->
                {Neg(t)}
          [] OTHER -> {least, Bits(0), greatest}

(***************************************************************************)
(* Map size, pixels and tiles                                              *)
(***************************************************************************)

\* The literal 256: the edge of a tile in pixels, and the map size at level 0.
TilePixels == 256

\* MapSize computed in a signed 32-bit type, of 31 value bits
MapSize_Int32(levelOfDetail) ==
    Shl(Bits(TilePixels), levelOfDetail) \cap (0..30)

\* 256 << levelOfDetail, a uint
MapSize(levelOfDetail) == Shl(Bits(TilePixels), levelOfDetail)

\* const MinLatitude = -85.05112878: the float64 nearest the decimal, which
\* is the correctly rounded quotient 8505112878 / 10^8.
MinLatitude ==
    Fin(TRUE, MagDiv(MagAdd(MagMul(Bits(85051), Bits(100000)), Bits(12878)),
                     Bits(100000000)))

\* const MaxLatitude = -1 * MinLatitude (constant arithmetic is exact)
MaxLatitude == Fin(~MinLatitude.neg, MinLatitude.m)

\* const MinLongitude = -180, const MaxLongitude = -1 * MinLongitude
MinLongitude == FNegConst(180)
MaxLongitude == Fin(~MinLongitude.neg, MinLongitude.m)

\* Projected values: of the northern edge MaxLatitude (about -6.2e-12,
\* between -2^-37 and -2^-38), of the latitudes between it and the equator
\* (in (0, 0.5)), of the latitudes south of the equator (in (0.5, 1)) and of
\* the southern edge MinLatitude (about 1 + 6.2e-12).
YNorthEdge == {Fin(TRUE, {-37}), Fin(TRUE, {-38})}
YNorth ==
    {Fin(FALSE, {-40}), FDiv(FConst(1), FConst(3)), Fin(FALSE, {-2, -33})}
YSouth ==
    {Fin(FALSE, {-1, -30}), FDiv(FConst(2), FConst(3)),
     Fin(FALSE, (-31)..(-1))}
YSouthEdge == {Fin(FALSE, {0, -38}), Fin(FALSE, {0, -37})}

\* The values y of
\*     sinLatitude := math.Sin(latitude * math.Pi / 180)
\*     y := 0.5 - math.Log((1+sinLatitude)/(1-sinLatitude))/(4*math.Pi)
\* math.Sin and math.Log are not computed.  What the arithmetic around them
\* gives is kept: NaN and the infinities project to NaN (math.Sin of an
\* infinity is NaN); latitude 0 projects to exactly 0.5; a latitude within
\* [MinLatitude, MaxLatitude] projects to a finite value of its hemisphere,
\* of which a few are taken; past that range the value may pass the edge's
\* and, at the poles, be infinite.
ProjectY(latitude) ==
    CASE IsNaN(latitude) \/ IsInf(latitude) -> {NaN}
      [] IsZero(latitude) -> {FHalf}
      [] FLess(latitude, MinLatitude) -> YSouthEdge \cup {Inf(FALSE)}
      [] FLess(MaxLatitude, latitude) -> YNorthEdge \cup {Inf(TRUE)}
      [] latitude = MinLatitude -> YSouthEdge
      [] latitude = MaxLatitude -> YNorthEdge
      [] latitude.neg -> YSouth
      [] OTHER -> YNorth

\* LatLongToPixelXY without the + 0.5: truncating, not rounding
LatLongToPixelXY_Truncating(latitude, longitude, levelOfDetail) ==
    LET lat == clip(latitude, MinLatitude, MaxLatitude)
        lon == clip(longitude, MinLongitude, MaxLongitude)
        x == FDiv(FAdd(lon, FConst(180)), FConst(360))
        mapSize == MapSize(levelOfDetail)
        scaled(v) ==
            clip(FMul(v, UintToFloat(mapSize)),
                 FConst(0), UintToFloat(Sub(mapSize, Bits(1))))
    IN  UNION {{[x |-> x, y |-> y, pixelX |-> px, pixelY |-> py] :
                    px \in FloatToInt(scaled(x)),
                    py \in FloatToInt(scaled(y))} :
               y \in ProjectY(lat)}

\* The outcomes of a call: pixelX and pixelY as returned, with the locals x
\* and y they were computed from.
LatLongToPixelXY(latitude, longitude, levelOfDetail) ==
    LET lat == clip(latitude, MinLatitude, MaxLatitude)
        lon == clip(longitude, MinLongitude, MaxLongitude)
        x == FDiv(FAdd(lon, FConst(180)), FConst(360))
        mapSize == MapSize(levelOfDetail)
        scaled(v) ==
            clip(FAdd(FMul(v, UintToFloat(mapSize)), FHalf),
                 FConst(0), UintToFloat(Sub(mapSize, Bits(1))))
    IN  UNION {{[x |-> x, y |-> y, pixelX |-> px, pixelY |-> py] :
                    px \in FloatToInt(scaled(x)),
                    py \in FloatToInt(scaled(y))} :
               y \in ProjectY(lat)}

PixelXYToTileXY(pixelX, pixelY) ==
    LET tileX == Quo(pixelX, Bits(TilePixels))
        tileY == Quo(pixelY, Bits(TilePixels))
    IN  <<tileX, tileY>>

\* TileXYToPixelXY whose second line multiplies tileX again
TileXYToPixelXY_CopiedX(tileX, tileY) ==
    LET pixelX == Mul(tileX, Bits(TilePixels))
        pixelY == Mul(tileX, Bits(TilePixels))
    IN  <<pixelX, pixelY>>

TileXYToPixelXY(tileX, tileY) ==
    LET pixelX == Mul(tileX, Bits(TilePixels))
        pixelY == Mul(tileY, Bits(TilePixels))
    IN  <<pixelX, pixelY>>

(***************************************************************************)
(* The caller's inputs                                                     *)
(***************************************************************************)

\* The bytes a quadkey argument is built from: the four digits and two
\* that are not.
KeyChars == {"0", "1", "2", "3", "4", "x"}

RECURSIVE StringsOfLen(_)
StringsOfLen(n) ==
    IF n = 0 THEN {<<>>}
    ELSE {Append(s, c) : s \in StringsOfLen(n - 1), c \in KeyChars}

Repeat(c, n) == [k \in 1..n |-> c]

\* Lengths around MaxLevel and around the widths of int.
LongLens == {MaxLevel, MaxLevel + 1, 31, 32, 33, 63, 64, 65}

\* Long strings: one byte repeated, and the same with one invalid byte at
\* the front, in the middle or at the end.
LongKeys ==
    LET plain == {Repeat(c, n) : c \in KeyChars, n \in LongLens}
    IN  plain \cup
        {[s EXCEPT ![p] = "x"] :
            s \in {Repeat(c, n) : c \in {"0", "1", "3"}, n \in LongLens},
            p \in {1, 2}} \cup
        {[s EXCEPT ![Len(s)] = "x"] :
            s \in {Repeat(c, n) : c \in {"0", "3"}, n \in LongLens}}

QuadKeyInputs == UNION {StringsOfLen(n) : n \in 0..MaxKeyLen} \cup LongKeys

\* Tiles of a level: every tile up to level MaxLev, the corners and the
\* centre tiles of the deeper levels, and a few values outside the level's
\* range (one bit too high, and -1).
TilesOfLevel(l) ==
    (IF l <= MaxLev THEN SUBSET (0..(l - 1))
     ELSE {{}, 0..(l - 1), {l - 1}, (0..(l - 1)) \ {l - 1}, {0}})
    \cup {{l}, MinusOne}

\* Tile coordinates given to TileXYToPixelXY: small ones, the largest of
\* level MaxLevel, and the values around the point where 256 * tile leaves
\* the range of int.
TileSamples ==
    {Bits(n) : n \in {0, 1, 2, 3, 255, 256}} \cup
    {0..(MaxLevel - 1), {MaxLevel - 1}, {MaxLevel},
     0..(intSize - 10), {intSize - 10}, {intSize - 9},
     0..(intSize - 2), MinusOne}

\* Pixel coordinates given to PixelXYToTileXY: the first and last pixels of
\* some tiles, the largest ints, and negative values.
PixelSamples ==
    {Bits(n) : n \in {0, 1, 255, 256, 257, 511, 512, 767, 65535, 65536}} \cup
    {0..(MaxLevel + 7), 0..(intSize - 2), {intSize - 2},
     MinusOne, Neg(Bits(255)), Neg(Bits(256)), Neg(Bits(257)), {intSize - 1}}

\* Values given to clip, as n and as the bounds.
FloatSamples ==
    {NaN, Inf(TRUE), Inf(FALSE), Fin(FALSE, {}), Fin(TRUE, {}),
     FConst(1), FNegConst(1), FHalf, FConst(180), FNegConst(180),
     MinLatitude, FConst(511)}

\* Latitudes and longitudes given to LatLongToPixelXY: inside the range, on
\* its ends, outside it, infinite and NaN.
LatitudeInputs ==
    {NaN, Inf(TRUE), FNegConst(90), MinLatitude, FNegConst(45), FConst(0),
     FConst(45), MaxLatitude, FConst(90), Inf(FALSE)}

\* -179.6484375 is the longitude half a pixel east of the western edge at
\* level 1; 180 - 2^-45 is the last float64 below 180.
LongitudeInputs ==
    {NaN, Inf(TRUE), FNegConst(200), FNegConst(180),
     FAdd(FNegConst(180), FDiv(FConst(360), FConst(1024))),
     FNegConst(90), FNegConst(1), Fin(TRUE, {}), FConst(0), FConst(1),
     FConst(90), Fin(FALSE, MagSub(Bits(180), {-45})), FConst(180),
     FConst(200), Inf(FALSE)}

\* Levels given to MapSize: the supported ones, and the first past them.
LevelInputs == 0..(MaxLevel + 1)

(***************************************************************************)
(* The caller                                                              *)
(***************************************************************************)

Init ==
    /\ intSize \in IntSizes
    /\ fn = "none"
    /\ args = <<>>
    /\ ret = <<>>
    /\ locals = <<>>
    /\ prevFn = "none"
    /\ prevArgs = <<>>
    /\ prevRet = <<>>

\* A call whose arguments are the caller's own (made when no result is held).
Fresh(f, a, r) ==
    /\ fn' = f
    /\ args' = a
    /\ ret' = r
    /\ locals' = <<>>
    /\ prevFn' = "none"
    /\ prevArgs' = <<>>
    /\ prevRet' = <<>>
    /\ UNCHANGED intSize

\* A call whose arguments come from the value the last call returned.
Chained(f, a, r) ==
    /\ fn' = f
    /\ args' = a
    /\ ret' = r
    /\ locals' = <<>>
    /\ prevFn' = fn
    /\ prevArgs' = args
    /\ prevRet' = ret
    /\ UNCHANGED intSize

CallTileXYToQuadKey ==
    /\ fn = "none"
    /\ \E l \in 0..MaxLevel :
        \E x \in TilesOfLevel(l), y \in TilesOfLevel(l) :
            Fresh("TileXYToQuadKey", <<x, y, l>>, TileXYToQuadKey(x, y, l))

CallQuadKeyToTileXY ==
    /\ fn = "none"
    /\ \E q \in QuadKeyInputs :
        Fresh("QuadKeyToTileXY", <<q>>, QuadKeyToTileXY(q))

\* QuadKeyToTileXY(TileXYToQuadKey(tileX, tileY, level))
DecodeEncoded ==
    /\ fn = "TileXYToQuadKey"
    /\ prevFn = "none"
    /\ Chained("QuadKeyToTileXY", <<ret>>, QuadKeyToTileXY(ret))

\* TileXYToQuadKey(QuadKeyToTileXY(q))
EncodeDecoded ==
    /\ fn = "QuadKeyToTileXY"
    /\ prevFn = "none"
    /\ Chained("TileXYToQuadKey", ret,
               TileXYToQuadKey(ret[1], ret[2], ret[3]))

\* The caller drops the result and is ready for its next call.
Return ==
    /\ fn # "none"
    /\ fn' = "none"
    /\ args' = <<>>
    /\ ret' = <<>>
    /\ locals' = <<>>
    /\ prevFn' = "none"
    /\ prevArgs' = <<>>
    /\ prevRet' = <<>>
    /\ UNCHANGED intSize

\* TileXYToQuadKey of the parent tile (tileX / 2, tileY / 2, level - 1) of
\* the tile just encoded.
EncodeParent ==
    /\ fn = "TileXYToQuadKey"
    /\ prevFn = "none"
    /\ args[3] >= 1
    /\ LET x == Quo(args[1], Bits(2))
           y == Quo(args[2], Bits(2))
           l == args[3] - 1
       IN  Chained("TileXYToQuadKey", <<x, y, l>>, TileXYToQuadKey(x, y, l))

CallMapSize ==
    /\ fn = "none"
    /\ \E l \in LevelInputs : Fresh("MapSize", <<l>>, MapSize(l))

CallTileXYToPixelXY ==
    /\ fn = "none"
    /\ \E x \in TileSamples, y \in TileSamples :
        Fresh("TileXYToPixelXY", <<x, y>>, TileXYToPixelXY(x, y))

CallPixelXYToTileXY ==
    /\ fn = "none"
    /\ \E x \in PixelSamples, y \in PixelSamples :
        Fresh("PixelXYToTileXY", <<x, y>>, PixelXYToTileXY(x, y))

\* PixelXYToTileXY(TileXYToPixelXY(tileX, tileY))
TileOfTilePixel ==
    /\ fn = "TileXYToPixelXY"
    /\ prevFn = "none"
    /\ Chained("PixelXYToTileXY", ret, PixelXYToTileXY(ret[1], ret[2]))

CallClip ==
    /\ fn = "none"
    /\ \E n \in FloatSamples, a \in FloatSamples, b \in FloatSamples :
        Fresh("clip", <<n, a, b>>, clip(n, a, b))

\* clip(clip(n, a, b), a, b)
ClipAgain ==
    /\ fn = "clip"
    /\ prevFn = "none"
    /\ Chained("clip", <<ret, args[2], args[3]>>, clip(ret, args[2], args[3]))

CallLatLongToPixelXY ==
    /\ fn = "none"
    /\ \E lat \in LatitudeInputs, lon \in LongitudeInputs, l \in 0..MaxLevel :
        \E r \in LatLongToPixelXY(lat, lon, l) :
            /\ fn' = "LatLongToPixelXY"
            /\ args' = <<lat, lon, l>>
            /\ ret' = <<r.pixelX, r.pixelY>>
            /\ locals' = [x |-> r.x, y |-> r.y]
            /\ prevFn' = "none"
            /\ prevArgs' = <<>>
            /\ prevRet' = <<>>
            /\ UNCHANGED intSize

\* PixelXYToTileXY(LatLongToPixelXY(latitude, longitude, level)), the first
\* two steps of LatLongToQuadKey
TileOfLatLong ==
    /\ fn = "LatLongToPixelXY"
    /\ Chained("PixelXYToTileXY", ret, PixelXYToTileXY(ret[1], ret[2]))

Next ==
    \/ Return
    \/ CallClip
    \/ ClipAgain
    \/ CallLatLongToPixelXY
    \/ TileOfLatLong
    \/ EncodeParent
    \/ CallMapSize
    \/ CallTileXYToPixelXY
    \/ CallPixelXYToTileXY
    \/ TileOfTilePixel
    \/ CallTileXYToQuadKey
    \/ CallQuadKeyToTileXY
    \/ DecodeEncoded
    \/ EncodeDecoded

Spec == Init /\ [][Next]_vars

(***************************************************************************)
(* The properties                                                          *)
(***************************************************************************)

\* 0 <= t <= 2^l - 1
InRange(t, l) == t \subseteq 0..(l - 1)

\* x <= y on float64
FLeq(x, y) == FLess(x, y) \/ FEq(x, y)

\* The value bit i of t contributes to a sum: 1 if set, 0 if not.
BitAt(t, i) == IF i \in t THEN 1 ELSE 0

ValidChars == {"0", "1", "2", "3"}

\* The positions (0-indexed) of the bytes of q that are no quadkey digit.
InvalidPositions(q) == {p \in 0..(Len(q) - 1) : q[p + 1] \notin ValidChars}

HasInvalid(q) == InvalidPositions(q) # {}

\* A tile of a supported level, given to TileXYToQuadKey.
ValidTileArgs(a) ==
    /\ a[3] \in 1..MaxLevel
    /\ InRange(a[1], a[3])
    /\ InRange(a[2], a[3])

\* C1: quadkey round trip. For every level in 1..23 and tileX, tileY in
\* 0..2^level-1, QuadKeyToTileXY(TileXYToQuadKey(tileX, tileY, level))
\* returns exactly (tileX, tileY, level).
C1_QuadKeyRoundTrip ==
    (/\ fn = "QuadKeyToTileXY"
     /\ prevFn = "TileXYToQuadKey"
     /\ ValidTileArgs(prevArgs))
    => ret = prevArgs

\* A round trip of the deepest level's last tile has been made.
C1_Witness ==
    /\ fn = "QuadKeyToTileXY"
    /\ prevFn = "TileXYToQuadKey"
    /\ prevArgs = <<0..(MaxLevel - 1), 0..(MaxLevel - 1), MaxLevel>>
    /\ ret = prevArgs

\* C2: QuadKeyToTileXY signals an invalid-quadkey error, naming the byte and
\* its position, whenever the input holds a byte outside "0".."3"; it never
\* returns an ordinary (tileX, tileY, level) result for such an input.
C2_InvalidQuadKeyIsAnError ==
    (/\ fn = "QuadKeyToTileXY"
     /\ HasInvalid(args[1]))
    => ret \notin (Words \X Words \X Nat)

\* C3: for every level in 1..23 and tileX, tileY in 0..2^level-1 the quadkey
\* has exactly level characters, the one at position p (0-indexed) being the
\* digit (bit level-1-p of tileX) + 2 * (bit level-1-p of tileY); and
\* TileXYToQuadKey(3, 5, 3) = "213".
C3_QuadKeyDigits ==
    (/\ fn = "TileXYToQuadKey"
     /\ ValidTileArgs(args))
    => LET tileX == args[1]
           tileY == args[2]
           level == args[3]
       IN  /\ Len(ret) = level
           /\ \A p \in 0..(level - 1) :
                ret[p + 1] = DigitChars[BitAt(tileX, level - 1 - p)
                                        + 2 * BitAt(tileY, level - 1 - p) + 1]
           /\ args = <<Bits(3), Bits(5), 3>> => ret = <<"2", "1", "3">>

\* TileXYToQuadKey(3, 5, 3) has returned "213".
C3_Witness ==
    /\ fn = "TileXYToQuadKey"
    /\ args = <<Bits(3), Bits(5), 3>>
    /\ ret = <<"2", "1", "3">>

\* A call of LatLongToPixelXY at a supported level with no NaN argument.
OrdinaryLatLong(a) ==
    /\ a[3] \in 0..MaxLevel
    /\ ~IsNaN(a[1])
    /\ ~IsNaN(a[2])

\* C5: MapSize(level) is exactly 256 * 2^level for every level in 0..23, a
\* value the unsigned type holds without wrapping: one bit, at position
\* 8 + level, below the width; at level 23 it is 2^31, and mapSize - 1 has
\* exactly the bits below it.  The pixel coordinates LatLongToPixelXY
\* derives from it are non-negative ints up to mapSize - 1, and the tile
\* coordinates derived from those are in 0..2^level-1.
C5_MapSizeExact ==
    /\ (/\ fn = "MapSize"
        /\ args[1] \in 0..MaxLevel)
       => /\ ret = {8 + args[1]}
          /\ 8 + args[1] < intSize
          /\ Sub(ret, Bits(1)) = 0..(7 + args[1])
          /\ args[1] = MaxLevel => ret = {31}
    /\ (/\ fn = "LatLongToPixelXY"
        /\ OrdinaryLatLong(args))
       => /\ ~IsNeg(ret[1]) /\ InRange(ret[1], 8 + args[3])
          /\ ~IsNeg(ret[2]) /\ InRange(ret[2], 8 + args[3])
          /\ FLeq(FConst(180), args[2]) /\ FLeq(args[1], FNegConst(90))
             => ret = <<0..(7 + args[3]), 0..(7 + args[3])>>
          /\ FLeq(args[2], FNegConst(180)) /\ FLeq(FConst(90), args[1])
             => ret = <<Bits(0), Bits(0)>>
    /\ (/\ fn = "PixelXYToTileXY"
        /\ prevFn = "LatLongToPixelXY"
        /\ OrdinaryLatLong(prevArgs))
       => /\ ~IsNeg(ret[1]) /\ InRange(ret[1], prevArgs[3])
          /\ ~IsNeg(ret[2]) /\ InRange(ret[2], prevArgs[3])

\* MapSize(23) has returned 2^31 on a build whose uint has 32 bits.
C5_Witness ==
    /\ fn = "MapSize"
    /\ args = <<MaxLevel>>
    /\ intSize = 32
    /\ ret = {31}

\* 256 * t does not leave the range of int: 0 <= t < 2^(intSize - 9).
FitsTimes256(t) == t \subseteq 0..(intSize - 10)

\* px div 256 for a px >= 0
Div256(px) == {i - 8 : i \in {j \in px : j >= 8}}

\* C6 as stated: for every tileX >= 0 and tileY >= 0,
\* PixelXYToTileXY(TileXYToPixelXY(tileX, tileY)) = (tileX, tileY).
C6_RoundTripEveryTile ==
    (/\ fn = "PixelXYToTileXY"
     /\ prevFn = "TileXYToPixelXY"
     /\ ~IsNeg(prevArgs[1])
     /\ ~IsNeg(prevArgs[2]))
    => ret = prevArgs

\* C6 amended: the round trip holds for every tileX, tileY >= 0 whose
\* product with 256 is in the range of int (every tile of the levels up to
\* 23 is); and for every pixel px, py >= 0 PixelXYToTileXY returns
\* (px div 256, py div 256).
C6_TilePixelRoundTrip ==
    /\ (/\ fn = "PixelXYToTileXY"
        /\ prevFn = "TileXYToPixelXY"
        /\ FitsTimes256(prevArgs[1])
        /\ FitsTimes256(prevArgs[2]))
       => ret = prevArgs
    /\ (/\ fn = "PixelXYToTileXY"
        /\ ~IsNeg(args[1])
        /\ ~IsNeg(args[2]))
       => ret = <<Div256(args[1]), Div256(args[2])>>
    /\ (/\ fn = "TileXYToPixelXY"
        /\ InRange(args[1], MaxLevel)
        /\ InRange(args[2], MaxLevel))
       => FitsTimes256(args[1]) /\ FitsTimes256(args[2])

\* The last tile of level 23 has come back from its pixel, and the last
\* pixel of a tile has been mapped to the tile.
C6_Witness ==
    \/ /\ fn = "PixelXYToTileXY"
       /\ prevFn = "TileXYToPixelXY"
       /\ prevArgs = <<0..(MaxLevel - 1), Bits(3)>>
       /\ ret = prevArgs
    \/ /\ fn = "PixelXYToTileXY"
       /\ prevFn = "none"
       /\ args = <<Bits(767), Bits(256)>>
       /\ ret = <<Bits(2), Bits(1)>>

\* C8: for every string q of 0..23 digits "0".."3", QuadKeyToTileXY(q)
\* returns (tileX, tileY, level) with level = length(q) and tileX, tileY in
\* 0..2^level-1, and TileXYToQuadKey of that result is q; the empty string
\* decodes to (0, 0, 0).
C8_DecodeEncodeRoundTrip ==
    /\ (/\ fn = "QuadKeyToTileXY"
        /\ Len(args[1]) <= MaxLevel
        /\ ~HasInvalid(args[1]))
       => /\ ret[3] = Len(args[1])
          /\ InRange(ret[1], ret[3])
          /\ InRange(ret[2], ret[3])
          /\ args[1] = <<>> => ret = <<Bits(0), Bits(0), 0>>
    /\ (/\ fn = "TileXYToQuadKey"
        /\ prevFn = "QuadKeyToTileXY"
        /\ Len(prevArgs[1]) <= MaxLevel
        /\ ~HasInvalid(prevArgs[1]))
       => ret = prevArgs[1]

\* A quadkey of 23 digits has been decoded and encoded again.
C8_Witness ==
    /\ fn = "TileXYToQuadKey"
    /\ prevFn = "QuadKeyToTileXY"
    /\ Len(prevArgs[1]) = MaxLevel
    /\ prevArgs[1][1] = "3"
    /\ ret = prevArgs[1]

\* C9: for every level in 2..23 and tileX, tileY in 0..2^level-1, the
\* quadkey of (tileX div 2, tileY div 2, level - 1) is exactly the first
\* level - 1 characters of the quadkey of (tileX, tileY, level).
C9_ParentIsPrefix ==
    (/\ fn = "TileXYToQuadKey"
     /\ prevFn = "TileXYToQuadKey"
     /\ ValidTileArgs(prevArgs)
     /\ prevArgs[3] >= 2)
    => /\ Len(prevRet) = Len(ret) + 1
       /\ ret = SubSeq(prevRet, 1, prevArgs[3] - 1)

\* The parent of a tile of level 3 has been encoded, both quadkeys non-empty.
C9_Witness ==
    /\ fn = "TileXYToQuadKey"
    /\ prevFn = "TileXYToQuadKey"
    /\ prevArgs = <<Bits(3), Bits(5), 3>>
    /\ prevRet = <<"2", "1", "3">>
    /\ ret = <<"2", "1">>

\* C10 as stated: a non-empty q holding an invalid byte decodes to
\* (-1, -1, length(q)); hence tileX = -1 (equivalently tileY = -1) is
\* returned if and only if q held an invalid byte.
C10_SentinelIffInvalid ==
    fn = "QuadKeyToTileXY"
    => /\ HasInvalid(args[1]) => ret = <<MinusOne, MinusOne, Len(args[1])>>
       /\ ret[1] = MinusOne <=> HasInvalid(args[1])
       /\ ret[2] = MinusOne <=> HasInvalid(args[1])

\* C10 amended: a non-empty q holding an invalid byte decodes to
\* (-1, -1, length(q)), whatever its length; and for a q shorter than the
\* width of int (so for every q of at most 31 bytes), tileX = -1
\* (equivalently tileY = -1) is returned if and only if q held an invalid
\* byte, a q of digits giving non-negative coordinates.
C10_SentinelAbsorbs ==
    fn = "QuadKeyToTileXY"
    => /\ HasInvalid(args[1]) => ret = <<MinusOne, MinusOne, Len(args[1])>>
       /\ Len(args[1]) < intSize
          => /\ ret[1] = MinusOne <=> HasInvalid(args[1])
             /\ ret[2] = MinusOne <=> HasInvalid(args[1])
             /\ ~HasInvalid(args[1]) => ~IsNeg(ret[1]) /\ ~IsNeg(ret[2])

\* "3x33...": an invalid byte after a digit, digits after it, and the
\* result is the sentinel.
C10_Witness ==
    /\ fn = "QuadKeyToTileXY"
    /\ Len(args[1]) = MaxLevel
    /\ InvalidPositions(args[1]) = {1}
    /\ args[1][1] = "3"
    /\ ret = <<MinusOne, MinusOne, MaxLevel>>

\* What C7 says of clip(n, a, b) = r and of clip(r, a, b) = again.
ClipClamps(n, a, b, r, again) ==
    /\ FEq(again, r)
    /\ FLeq(a, r)
    /\ FLeq(r, b)
    /\ FEq(r, IF FLess(n, a) THEN a ELSE IF FLess(b, n) THEN b ELSE n)

\* C7 as stated: for every n and every a <= b,
\* clip(clip(n, a, b), a, b) = clip(n, a, b), and clip(n, a, b) lies in
\* [a, b]: it is a if n < a, b if n > b, and n otherwise.
C7_ClipEveryN ==
    (/\ fn = "clip"
     /\ prevFn = "clip"
     /\ FLeq(prevArgs[2], prevArgs[3]))
    => ClipClamps(prevArgs[1], prevArgs[2], prevArgs[3], prevRet, ret)

\* C7 amended: the same for every n that is not NaN (clip(NaN, a, b) is NaN
\* for finite a and b, which is in no interval and equal to nothing).
C7_ClipIdempotent ==
    (/\ fn = "clip"
     /\ prevFn = "clip"
     /\ ~IsNaN(prevArgs[1])
     /\ FLeq(prevArgs[2], prevArgs[3]))
    => ClipClamps(prevArgs[1], prevArgs[2], prevArgs[3], prevRet, ret)

\* 180 has been clipped to [-1, 1] and the result clipped again.
C7_Witness ==
    /\ fn = "clip"
    /\ prevFn = "clip"
    /\ prevArgs = <<FConst(180), FNegConst(1), FConst(1)>>
    /\ prevRet = FConst(1)
    /\ ret = FConst(1)

\* floor(v * mapSize + 0.5) clamped to [0, mapSize - 1] for
\* mapSize = 256 * 2^level, as a word; {-1}, which is no word, when the
\* value is NaN.
RoundClamp(v, level) ==
    LET f == FAdd(FMul(v, Fin(FALSE, {8 + level})), FHalf)
        whole == {i \in f.m : i >= 0}
        last == 0..(7 + level)
    IN  CASE IsNaN(f) -> {-1}
          [] IsInf(f) -> IF f.neg THEN {} ELSE last
          [] f.neg -> {}
          [] whole \subseteq last -> whole
          [] OTHER -> last

\* The longitude clamped to [-180, 180]
ClampedLongitude(longitude) ==
    IF FLess(longitude, FNegConst(180)) THEN FNegConst(180)
    ELSE IF FLess(FConst(180), longitude) THEN FConst(180)
    ELSE longitude

\* What C4 says of a call LatLongToPixelXY(latitude, longitude, level) that
\* returned pixel, with x and y the normalized projected values.
PixelsRounded(longitude, level, x, y, pixel) ==
    /\ InRange(pixel[1], 8 + level) /\ ~IsNeg(pixel[1])
    /\ InRange(pixel[2], 8 + level) /\ ~IsNeg(pixel[2])
    /\ FEq(x, FDiv(FAdd(ClampedLongitude(longitude), FConst(180)),
                   FConst(360)))
    /\ pixel[1] = RoundClamp(x, level)
    /\ pixel[2] = RoundClamp(y, level)
    /\ FLeq(FConst(180), longitude) => pixel[1] = 0..(7 + level)

\* C4 as stated: for every level in 1..23 and every latitude and longitude,
\* each pixel coordinate is floor(v * mapSize + 0.5) clamped to
\* [0, mapSize - 1], v the normalized projected value (for X,
\* (clampedLongitude + 180) / 360); both lie in [0, mapSize - 1], and a
\* longitude of 180 or more gives pixelX = mapSize - 1.
C4_PixelsEveryInput ==
    (/\ fn = "LatLongToPixelXY"
     /\ args[3] \in 1..MaxLevel)
    => PixelsRounded(args[2], args[3], locals.x, locals.y, ret)

\* C4 amended: the same for every latitude and longitude that is not NaN
\* (the infinities included, which are clamped like any value out of range).
C4_PixelsRounded ==
    (/\ fn = "LatLongToPixelXY"
     /\ args[3] \in 1..MaxLevel
     /\ ~IsNaN(args[1])
     /\ ~IsNaN(args[2]))
    => PixelsRounded(args[2], args[3], locals.x, locals.y, ret)

\* LatLongToPixelXY(90, 200, 1) has returned pixelX = 511, the last pixel,
\* and pixelY = 0, the latitude clamped to the northern edge.
C4_Witness ==
    /\ fn = "LatLongToPixelXY"
    /\ args = <<FConst(90), FConst(200), 1>>
    /\ locals.x = FConst(1)
    /\ ret = <<Bits(511), Bits(0)>>

====
